---- MODULE Spec2Model ----
(***************************************************************************)
(* StockInsightTracker: the per-symbol pipeline of stock_data.py           *)
(* (history -> round -> technical indicators -> company info -> news) and  *)
(* the render pass of main.py that loops over the requested symbols.       *)
(*                                                                         *)
(* Floating point values are modelled as extended rationals: a cell is     *)
(* NaN, +/-infinity or an exact fraction n/d (d > 0, lowest terms).  The   *)
(* special values follow IEEE-754 as numpy applies it to float64 columns   *)
(* (x/0 is inf, 0/0 is NaN, 100/inf is 0, NaN compares False); binary      *)
(* rounding error of finite values and the sign of zero are not modelled.  *)
(* Python position i of a column is index i+1 of the TLA+ sequence.        *)
(***************************************************************************)
EXTENDS Integers, Sequences, FiniteSets, TLC

VARIABLES pc, symbols, pos, stock_data, calls, frames, df, before, ret,
          info, articles, news, rendered

vars == <<pc, symbols, pos, stock_data, calls, frames, df, before, ret,
          info, articles, news, rendered>>

\* Python's None and a present value, for the places that hold either.
None == [none |-> TRUE]

Some(v) == [none |-> FALSE, v |-> v]

(***************************************************************************)
(* Bounds of the model and constants of the program.                       *)
(***************************************************************************)
MaxLen == 201
MaxArticles == 6
MaxSymbols == 2

SMA20Window == 20
SMA50Window == 50
SMA200Window == 200
RSIWindow == 14
NewsLimit == 5

(***************************************************************************)
(* float64 cells.                                                          *)
(***************************************************************************)
Abs(n) == IF n < 0 THEN 0 - n ELSE n

Sign(n) == IF n < 0 THEN 0 - 1 ELSE IF n > 0 THEN 1 ELSE 0

RECURSIVE GCD(_, _)
GCD(a, b) == IF b = 0 THEN a ELSE GCD(b, a % b)

NaN == [k |-> "nan"]

Inf(s) == [k |-> "inf", s |-> s]

Num(n, d) ==
    LET g == GCD(Abs(n), d)
    IN  [k |-> "num", n |-> n \div g, d |-> d \div g]

Zero == Num(0, 1)

IsNum(a) == a.k = "num"

FNeg(a) ==
    IF a.k = "nan" THEN NaN
    ELSE IF a.k = "inf" THEN Inf(0 - a.s)
    ELSE Num(0 - a.n, a.d)

FAdd(a, b) ==
    IF a.k = "nan" \/ b.k = "nan" THEN NaN
    ELSE IF a.k = "inf" /\ b.k = "inf" THEN (IF a.s = b.s THEN a ELSE NaN)
    ELSE IF a.k = "inf" THEN a
    ELSE IF b.k = "inf" THEN b
    ELSE Num(a.n * b.d + b.n * a.d, a.d * b.d)

FSub(a, b) == FAdd(a, FNeg(b))

FDiv(a, b) ==
    IF a.k = "nan" \/ b.k = "nan" THEN NaN
    ELSE IF a.k = "inf" /\ b.k = "inf" THEN NaN
    ELSE IF a.k = "inf" THEN Inf(IF b.n < 0 THEN 0 - a.s ELSE a.s)
    ELSE IF b.k = "inf" THEN Zero
    ELSE IF b.n = 0 THEN (IF a.n = 0 THEN NaN ELSE Inf(Sign(a.n)))
    ELSE Num(a.n * b.d * Sign(b.n), a.d * Abs(b.n))

\* a > b and a < b on float64: False whenever an operand is NaN.
FGt(a, b) ==
    IF a.k = "nan" \/ b.k = "nan" THEN FALSE
    ELSE IF a.k = "inf" THEN a.s = 1 /\ ~(b.k = "inf" /\ b.s = 1)
    ELSE IF b.k = "inf" THEN b.s = 0 - 1
    ELSE a.n * b.d > b.n * a.d

FLt(a, b) == FGt(b, a)

\* round(2): to the nearest hundredth, ties to the even hundredth.
Round2(a) ==
    IF ~IsNum(a) THEN a
    ELSE LET s  == 100 * a.n
             q  == s \div a.d
             r2 == 2 * (s % a.d)
             up == r2 > a.d \/ (r2 = a.d /\ q % 2 = 1)
         IN  Num(IF up THEN q + 1 ELSE q, 100)

(***************************************************************************)
(* pandas Series operations used by calculate_technical_indicators.        *)
(***************************************************************************)
\* The sum of x[lo..hi], added up by halves (the sums are exact, so the
\* order of the additions does not change the result).
RECURSIVE SumCells(_, _, _)
SumCells(x, lo, hi) ==
    IF lo > hi THEN Zero
    ELSE IF lo = hi THEN x[lo]
    ELSE LET mid == (lo + hi) \div 2
         IN  FAdd(SumCells(x, lo, mid), SumCells(x, mid + 1, hi))

\* Series.rolling(window=w).mean(): min_periods defaults to w, so a position
\* has a value only when its trailing window holds w non-NaN observations.
RollingMean(x, w) ==
    [i \in 1..Len(x) |->
        IF i >= w /\ \A j \in (i - w + 1)..i : IsNum(x[j])
        THEN FDiv(SumCells(x, i - w + 1, i), Num(w, 1))
        ELSE NaN]

\* Series.diff(): the first position has no predecessor and is NaN.
Diff(x) ==
    [i \in 1..Len(x) |-> IF i = 1 THEN NaN ELSE FSub(x[i], x[i - 1])]

\* delta.where(delta > 0, 0): keeps a cell where the condition is True and
\* puts 0 everywhere else, also where delta is NaN (NaN > 0 is False).
WherePositive(delta) ==
    [i \in 1..Len(delta) |-> IF FGt(delta[i], Zero) THEN delta[i] ELSE Zero]

WhereNegative(delta) ==
    [i \in 1..Len(delta) |-> IF FLt(delta[i], Zero) THEN delta[i] ELSE Zero]

NegSeries(x) == [i \in 1..Len(x) |-> FNeg(x[i])]

\* rolling(window=w, min_periods=1): a mean over whatever the window holds.
SMA_MinPeriodsOne(close, w) ==
    [i \in 1..Len(close) |->
        LET lo == IF i >= w THEN i - w + 1 ELSE 1
        IN  FDiv(SumCells(close, lo, i), Num(i - lo + 1, 1))]

SMA(close, w) == RollingMean(close, w)

AvgGain(close) == RollingMean(WherePositive(Diff(close)), RSIWindow)

AvgLoss(close) == RollingMean(NegSeries(WhereNegative(Diff(close))), RSIWindow)

\* rs = gain / loss ; RSI = 100 - (100 / (1 + rs)), cell by cell.
\* A division that gives NaN, not infinity, when the average loss is 0.
RelativeStrength_NoInfinity(gain, loss) ==
    IF IsNum(loss) /\ loss.n = 0 THEN NaN ELSE FDiv(gain, loss)

RelativeStrength(gain, loss) == FDiv(gain, loss)

RSIValue(gain, loss) ==
    FSub(Num(100, 1),
         FDiv(Num(100, 1), FAdd(Num(1, 1), RelativeStrength(gain, loss))))

RSI(close) ==
    LET gain == AvgGain(close)
        loss == AvgLoss(close)
    IN  [i \in 1..Len(close) |-> RSIValue(gain[i], loss[i])]

(***************************************************************************)
(* DataFrames: an index of dates and named columns of cells.               *)
(***************************************************************************)
SetColumn(f, name, series) ==
    [f EXCEPT !.data =
        [c \in DOMAIN f.data \cup {name} |->
            IF c = name THEN series ELSE f.data[c]]]

Columns(f) == DOMAIN f.data

IsEmptyFrame(f) == Len(f.index) = 0

\* df[float_columns] = df[float_columns].round(2)
round_df(f) ==
    [f EXCEPT !.data =
        [c \in DOMAIN f.data |->
            [i \in 1..Len(f.data[c]) |-> Round2(f.data[c][i])]]]

\* The body of calculate_technical_indicators: four column assignments on
\* the frame it was given; the dates of the index are never read.
calculate_technical_indicators(f) ==
    LET close == f.data["Close"]
        f1 == SetColumn(f, "SMA20", SMA(close, SMA20Window))
        f2 == SetColumn(f1, "SMA50", SMA(close, SMA50Window))
        f3 == SetColumn(f2, "SMA200", SMA(close, SMA200Window))
    IN  SetColumn(f3, "RSI", RSI(close))

(***************************************************************************)
(* fetch_news: the provider's response, TextBlob's polarity, the result.   *)
(***************************************************************************)
Words == <<"beats", "plunges", "reports">>

\* The lexicon scorer behind TextBlob(text).sentiment.polarity, in hundredths:
\* the mean valence of the words that carry one, 0.0 when none does.
Valence(w) == IF w = "beats" THEN 50 ELSE IF w = "plunges" THEN 0 - 50 ELSE 0

RECURSIVE SumValence(_)
SumValence(ws) ==
    IF ws = <<>> THEN 0 ELSE Valence(Head(ws)) + SumValence(Tail(ws))

Polarity(ws) ==
    LET n == Cardinality({i \in 1..Len(ws) : Valence(ws[i]) # 0})
    IN  IF n = 0 THEN 0 ELSE SumValence(ws) \div n

\* article['title'] + ' ' + article['description'] raises TypeError when
\* either operand is None.
CanConcat(a) == ~a.title.none /\ ~a.description.none

Concat(a) == a.title.v \o a.description.v

\* articles['articles'][-5:]: the last n, not the first.
Take_Last(s, n) == SubSeq(s, IF Len(s) < n THEN 1 ELSE Len(s) - n + 1, Len(s))

\* articles['articles'][:5]
Take(s, n) == SubSeq(s, 1, IF Len(s) < n THEN Len(s) ELSE n)

NewsItem(a) ==
    [title |-> a.title, description |-> a.description, url |-> a.url,
     publishedAt |-> a.publishedAt, sentiment |-> Polarity(Concat(a))]

\* A try block inside the loop: an article that cannot be scored is skipped
\* and the articles scored so far are returned.
fetch_news_SkipBad(resp) ==
    IF resp.kind = "raise" THEN <<>>
    ELSE IF ~resp.has_articles THEN <<>>
    ELSE LET top  == Take(resp.articles, NewsLimit)
             good == SelectSeq(top, CanConcat)
         IN  [i \in 1..Len(good) |-> NewsItem(good[i])]

\* The whole of fetch_news: any exception inside the try block (the provider
\* call, the missing 'articles' key, the concatenation) ends in `return []`.
fetch_news(resp) ==
    IF resp.kind = "raise" THEN <<>>
    ELSE IF ~resp.has_articles THEN <<>>
    ELSE LET top == Take(resp.articles, NewsLimit)
         IN  IF \E i \in 1..Len(top) : ~CanConcat(top[i]) THEN <<>>
             ELSE [i \in 1..Len(top) |-> NewsItem(top[i])]

(***************************************************************************)
(* get_company_info: every key read with .get(key, 'N/A').                 *)
(***************************************************************************)
InfoKeys ==
    {"longName", "sector", "industry", "website", "currentPrice",
     "marketCap", "trailingPE", "forwardPE", "pegRatio", "priceToBook",
     "enterpriseToRevenue", "enterpriseToEbitda"}

get_company_info(raw) ==
    [key \in InfoKeys |-> IF key \in DOMAIN raw THEN raw[key] ELSE "N/A"]

\* x >= 0 in the first test: a zero score labelled Positive.
SentimentLabel_ZeroPositive(x) ==
    IF x >= 0 THEN "Positive" ELSE IF x < 0 THEN "Negative" ELSE "Neutral"

\* lambda x: 'Positive' if x > 0 else ('Negative' if x < 0 else 'Neutral')
SentimentLabel(x) ==
    IF x > 0 THEN "Positive" ELSE IF x < 0 THEN "Negative" ELSE "Neutral"

(***************************************************************************)
(* What the providers can answer.                                          *)
(***************************************************************************)
SymbolPool == {"AAPL", "GOOGL"}

\* Raw closes in thousandths of a dollar at Python position i.
RawClose(shape, i) ==
    CASE shape = "flat"      -> 100000
      [] shape = "flat_low"  -> 25004
      [] shape = "up"        -> 50000 + 10 * i
      [] shape = "up_odd"    -> 50000 + 35 * i
      [] shape = "up_slow"   -> 50000 + 2 * i
      [] shape = "down"      -> 90000 - 20 * i
      [] shape = "zigzag"    -> 60000 + 10 * i + (IF i % 2 = 1 THEN 150 ELSE 0)
      [] shape = "saw"       -> 70000 + 10 * ((i * 37) % 11)
      [] shape = "late_rise" -> 80000 + (IF i >= 30 THEN 10 * (i - 29) ELSE 0)
      [] shape = "one_jump"  -> 80000 + (IF i >= 16 THEN 500 ELSE 0)
      [] shape = "one_drop"  -> 80000 - (IF i >= 3 THEN 500 ELSE 0)
      [] shape = "peak"      -> 80000 + (IF i < 20 THEN 30 * i ELSE 30 * 20 - 15 * (i - 20))

Shapes ==
    {"flat", "flat_low", "up", "up_odd", "up_slow", "down", "zigzag", "saw",
     "late_rise", "one_jump", "one_drop", "peak"}

Lengths == {1, 2, 14, 15, 16, 21, 51, MaxLen - 1, MaxLen}

\* The index of a history: ascending days, or a malformed one (two days out
\* of order, one day twice).
DateOrders == {"ascending", "swapped", "duplicated"}

Dates(order, n) ==
    [i \in 1..n |->
        IF order = "swapped" /\ n >= 3 /\ i \in {2, 3} THEN 5 - i
        ELSE IF order = "duplicated" /\ n >= 2 /\ i = 2 THEN 1
        ELSE i]

History(shape, order, n) ==
    [index |-> Dates(order, n),
     data  |-> [c \in {"Close"} |->
                  [i \in 1..n |-> Num(RawClose(shape, i - 1), 1000)]]]

Histories == {History(sh, o, n) : sh \in Shapes, o \in DateOrders, n \in Lengths}

\* stock.history(period) for one symbol in the render pass: an exception, an
\* empty frame, or that symbol's bars.
SymbolShape(symbol) == IF symbol = "AAPL" THEN "zigzag" ELSE "down"

HistoryOutcomes(symbol) ==
    {[kind |-> "raise"],
     [kind |-> "frame", frame |-> History("flat", "ascending", 0)],
     [kind |-> "frame", frame |-> History(SymbolShape(symbol), "ascending", 16)]}

\* stock.info: an exception, a full mapping, or one that lacks the metrics.
FullInfo(symbol) ==
    [key \in InfoKeys |-> IF key = "longName" THEN symbol ELSE "1.00"]

SparseInfo(symbol) == [key \in {"longName"} |-> symbol]

InfoOutcomes(symbol) ==
    {[kind |-> "raise"],
     [kind |-> "info", raw |-> FullInfo(symbol)],
     [kind |-> "info", raw |-> SparseInfo(symbol)]}

\* newsapi.get_everything: article j of the feed, newest first; `bad` is the
\* position of an article whose description is None (0: none is).
Article(j, bad) ==
    [title       |-> Some(<<Words[(j % 3) + 1]>>),
     description |-> IF j = bad THEN None ELSE Some(<<Words[((j \div 3) % 3) + 1]>>),
     url         |-> j,
     publishedAt |-> 1000 - j]

Feed(n, bad) == [j \in 1..n |-> Article(j, bad)]

Reverse(s) == [i \in 1..Len(s) |-> s[Len(s) + 1 - i]]

NewsOutcomes ==
    {[kind |-> "raise"], [kind |-> "response", has_articles |-> FALSE]}
    \cup {[kind |-> "response", has_articles |-> TRUE, articles |-> Feed(n, bad)] :
             n \in 0..MaxArticles, bad \in 0..MaxArticles}
    \cup {[kind |-> "response", has_articles |-> TRUE, articles |-> Reverse(Feed(2, 0))]}

SymbolLists ==
    UNION {[1..n -> SymbolPool] : n \in 0..MaxSymbols}

(***************************************************************************)
(* The render pass of main.py and, inside it, fetch_stock_data step by     *)
(* step.  frames is the heap of DataFrame objects; df, info and news are   *)
(* the locals of fetch_stock_data (df a reference into frames); before and *)
(* ret record the frame passed to calculate_technical_indicators and the   *)
(* reference it returned; articles is what the news provider answered;     *)
(* calls records every fetch_stock_data call of the pass and its result.   *)
(***************************************************************************)
NoStockData == [s \in {} |-> None]

NoRender == [s \in {} |-> <<>>]

Init ==
    /\ pc = "input"
    /\ symbols = <<>>
    /\ pos = 1
    /\ stock_data = NoStockData
    /\ calls = <<>>
    /\ frames = <<>>
    /\ df = None
    /\ before = None
    /\ ret = None
    /\ info = None
    /\ articles = None
    /\ news = None
    /\ rendered = NoRender

\* The text input, split on commas; an empty input shows the hint only.
Submit ==
    /\ pc = "input"
    /\ \E list \in SymbolLists :
          /\ symbols' = list
          /\ pc' = IF Len(list) = 0 THEN "done" ELSE "history"
    /\ pos' = 1
    /\ stock_data' = NoStockData
    /\ UNCHANGED <<calls, frames, df, before, ret, info, articles, news, rendered>>

\* stock = yf.Ticker(symbol); df = stock.history(period); if df.empty: return
FetchHistory ==
    /\ pc = "history"
    /\ \E o \in HistoryOutcomes(symbols[pos]) :
          IF o.kind = "raise"
          THEN /\ frames' = frames
               /\ df' = None
               /\ pc' = "returned"
          ELSE IF IsEmptyFrame(o.frame)
          THEN /\ frames' = <<o.frame>>
               /\ df' = None
               /\ pc' = "returned"
          ELSE /\ frames' = <<o.frame>>
               /\ df' = Some(1)
               /\ pc' = "round"
    /\ UNCHANGED <<symbols, pos, stock_data, calls, before, ret, info, articles, news, rendered>>

RoundDF ==
    /\ pc = "round"
    /\ frames' = [frames EXCEPT ![df.v] = round_df(@)]
    /\ pc' = "calc"
    /\ UNCHANGED <<symbols, pos, stock_data, calls, df, before, ret, info, articles, news, rendered>>

\* df = calculate_technical_indicators(df): the columns are assigned on the
\* object passed in and that same object is returned.
Calculate ==
    /\ pc = "calc"
    /\ before' = Some([ref |-> df.v, frame |-> frames[df.v]])
    /\ frames' = [frames EXCEPT ![df.v] = calculate_technical_indicators(@)]
    /\ ret' = df
    /\ df' = df
    /\ pc' = "info"
    /\ UNCHANGED <<symbols, pos, stock_data, calls, info, articles, news, rendered>>

\* info = get_company_info(stock); an exception reaches the handler of
\* fetch_stock_data, which returns None, None, None.
FetchInfo ==
    /\ pc = "info"
    /\ \E o \in InfoOutcomes(symbols[pos]) :
          IF o.kind = "raise"
          THEN /\ df' = None
               /\ info' = None
               /\ pc' = "returned"
          ELSE /\ df' = df
               /\ info' = Some(get_company_info(o.raw))
               /\ pc' = "news"
    /\ UNCHANGED <<symbols, pos, stock_data, calls, frames, before, ret, articles, news, rendered>>

\* news = fetch_news(symbol); return df, info, news
FetchNews ==
    /\ pc = "news"
    /\ \E r \in NewsOutcomes :
          /\ articles' = Some(r)
          /\ news' = Some(fetch_news(r))
    /\ pc' = "returned"
    /\ UNCHANGED <<symbols, pos, stock_data, calls, frames, df, before, ret, info, rendered>>

SymbolRecord == [df |-> frames[df.v], info |-> info.v, news |-> news.v]

\* stock_data = {symbol: {...}}: the records of the other symbols are lost.
PutRecord_Replace(sd, symbol, rec) == [s \in {symbol} |-> rec]

PutRecord(sd, symbol, rec) ==
    [s \in DOMAIN sd \cup {symbol} |-> IF s = symbol THEN rec ELSE sd[s]]

\* df, info, news = fetch_stock_data(symbol)
\* if df is not None and info is not None: stock_data[symbol] = {...}
Store ==
    /\ pc = "returned"
    /\ LET fetched == ~df.none /\ ~info.none
       IN  /\ stock_data' = IF fetched
                            THEN PutRecord(stock_data, symbols[pos], SymbolRecord)
                            ELSE stock_data
           /\ calls' = Append(calls,
                              [symbol |-> symbols[pos], fetched |-> fetched,
                               record |-> IF fetched THEN Some(SymbolRecord) ELSE None])
    /\ pos' = pos + 1
    /\ pc' = IF pos = Len(symbols) THEN "render" ELSE "history"
    /\ frames' = <<>>
    /\ df' = None
    /\ before' = None
    /\ ret' = None
    /\ info' = None
    /\ articles' = None
    /\ news' = None
    /\ UNCHANGED <<symbols, rendered>>

\* The f"{...:.2f}" formats of the comparative table raise ValueError on the
\* 'N/A' string.
FormattedKeys ==
    {"currentPrice", "marketCap", "trailingPE", "forwardPE", "pegRatio", "priceToBook"}

CanFormat(i) == \A key \in FormattedKeys : i[key] # "N/A"

\* alert_symbol = st.selectbox("Select Stock", symbols) starts on the first
\* listed symbol; stock_data[alert_symbol] raises KeyError without a record.
AlertSymbolKnown == symbols[1] \in DOMAIN stock_data

RECURSIVE InsertDesc(_, _)
InsertDesc(row, s) ==
    IF s = <<>> THEN <<row>>
    ELSE IF row.publishedAt > Head(s).publishedAt THEN <<row>> \o s
    ELSE <<Head(s)>> \o InsertDesc(row, Tail(s))

RECURSIVE SortDesc(_)
SortDesc(s) ==
    IF s = <<>> THEN <<>> ELSE InsertDesc(Head(s), SortDesc(Tail(s)))

\* news_df['sentiment'].apply(label); sort_values('publishedAt', descending)
NewsTable(items) ==
    SortDesc([i \in 1..Len(items) |->
                [items[i] EXCEPT !.sentiment = SentimentLabel(@)]])

Render ==
    /\ pc = "render"
    /\ IF stock_data = NoStockData
       THEN /\ rendered' = NoRender
            /\ pc' = "done"
       ELSE IF \/ \E s \in DOMAIN stock_data : ~CanFormat(stock_data[s].info)
               \/ ~AlertSymbolKnown
       THEN /\ rendered' = NoRender
            /\ pc' = "crashed"
       ELSE /\ rendered' = [s \in DOMAIN stock_data |-> NewsTable(stock_data[s].news)]
            /\ pc' = "done"
    /\ UNCHANGED <<symbols, pos, stock_data, calls, frames, df, before, ret, info, articles, news>>

Next ==
    \/ Submit
    \/ FetchHistory
    \/ RoundDF
    \/ Calculate
    \/ FetchInfo
    \/ FetchNews
    \/ Store
    \/ Render

Spec == Init /\ [][Next]_vars

(***************************************************************************)
(* calculate_technical_indicators on its own: fetch_stock_data holding a   *)
(* non-empty history, about to round it and compute the indicators.        *)
(***************************************************************************)
InitIndicators ==
    /\ pc = "round"
    /\ symbols = <<"AAPL">>
    /\ pos = 1
    /\ stock_data = NoStockData
    /\ calls = <<>>
    /\ \E h \in Histories : frames = <<h>>
    /\ df = Some(1)
    /\ before = None
    /\ ret = None
    /\ info = None
    /\ articles = None
    /\ news = None
    /\ rendered = NoRender

NextIndicators == RoundDF \/ Calculate

SpecIndicators == InitIndicators /\ [][NextIndicators]_vars

(***************************************************************************)
(* Properties of calculate_technical_indicators (under SpecIndicators).    *)
(* Position p below is the Python position; the cell is column[p + 1].     *)
(***************************************************************************)
Calculated == pc = "info" /\ ~before.none /\ ~ret.none

InputFrame == before.v.frame

InputClose == InputFrame.data["Close"]

OutputFrame == frames[ret.v]

Positions == 0..(Len(InputClose) - 1)

IndicatorColumns == {"SMA20", "SMA50", "SMA200", "RSI"}

Hundred == Num(100, 1)

Fifty == Num(50, 1)

IsConstantSeries(x) == \A i \in 1..Len(x) : x[i] = x[1]

IsStrictlyIncreasing(x) == \A i \in 2..Len(x) : FGt(x[i], x[i - 1])

DatesStrictlyIncreasing(idx) == \A i \in 2..Len(idx) : idx[i] > idx[i - 1]

\* C1: on a constant close series of length >= 200, RSI is exactly 50 at
\* every position from 14 onward (never NaN or infinite).
C1_FlatRSIIsFifty ==
    (Calculated /\ Len(InputClose) >= 200 /\ IsConstantSeries(InputClose))
        => \A p \in Positions : p >= 14 => OutputFrame.data["RSI"][p + 1] = Fifty

\* C2: RSI is undefined at every position below 14 and defined from position
\* 14 onward.
C2_RSIDefinedFromFourteen ==
    Calculated
        => \A p \in Positions :
              /\ p < 14 => OutputFrame.data["RSI"][p + 1] = NaN
              /\ p >= 14 => OutputFrame.data["RSI"][p + 1] # NaN

\* C3: on an index whose dates are not strictly increasing the computation
\* fails: it returns nothing and adds no indicator column.
C3_MalformedDatesFail ==
    (pc = "info" /\ ~before.none /\ ~DatesStrictlyIncreasing(InputFrame.index))
        => /\ ret.none
           /\ \A f \in 1..Len(frames) : Columns(frames[f]) \cap IndicatorColumns = {}

\* C4: after the call the frame passed in is as it was before the call, and
\* the indicator columns are on another, returned frame.
C4_InputNotMutated ==
    Calculated
        => /\ frames[before.v.ref] = InputFrame
           /\ ret.v # before.v.ref

\* C5: for w in {20, 50, 200} the SMA column is undefined below position
\* w - 1 and from there on is the arithmetic mean of close[p-w+1 .. p]; the
\* cell at p is the same when the series is cut off after p (no lookahead).
Cents(a) == (a.n * 100) \div a.d

RECURSIVE WindowCents(_, _, _)
WindowCents(x, lo, hi) ==
    IF lo > hi THEN 0
    ELSE IF hi - lo < 8 THEN Cents(x[hi]) + WindowCents(x, lo, hi - 1)
    ELSE LET mid == (lo + hi) \div 2
         IN  WindowCents(x, lo, mid) + WindowCents(x, mid + 1, hi)

SMAColumns == {<<"SMA20", 20>>, <<"SMA50", 50>>, <<"SMA200", 200>>}

SMAIsTrailingMean(col, w) ==
    \A p \in Positions :
        /\ p < w - 1 => col[p + 1] = NaN
        /\ p >= w - 1 =>
              /\ col[p + 1] = Num(WindowCents(InputClose, p - w + 2, p + 1), 100 * w)
              /\ col[p + 1] = SMA(SubSeq(InputClose, 1, p + 1), w)[p + 1]

C5_SMATrailingMean ==
    Calculated
        => \A cw \in SMAColumns : SMAIsTrailingMean(OutputFrame.data[cw[1]], cw[2])

C5_Witness ==
    /\ Calculated
    /\ Len(InputClose) > 200
    /\ ~IsConstantSeries(InputClose)
    /\ \E p \in Positions : p >= 1 /\ Cents(InputClose[p + 1]) < Cents(InputClose[p])
    /\ OutputFrame.data["SMA200"][199] = NaN
    /\ IsNum(OutputFrame.data["SMA200"][201])
    /\ IsNum(OutputFrame.data["SMA20"][20])

\* C6: on strictly increasing closes, RSI is exactly 100 wherever it is
\* defined, and it is defined (not NaN, not a fault) from position 14 onward.
C6_UptrendRSIIsHundred ==
    (Calculated /\ IsStrictlyIncreasing(InputClose))
        => \A p \in Positions :
              /\ OutputFrame.data["RSI"][p + 1] \in {NaN, Hundred}
              /\ p >= 14 => OutputFrame.data["RSI"][p + 1] = Hundred

C6_Witness ==
    /\ Calculated
    /\ IsStrictlyIncreasing(InputClose)
    /\ Len(InputClose) >= 200
    /\ AvgLoss(InputClose)[15] = Zero
    /\ OutputFrame.data["RSI"][15] = Hundred
    /\ OutputFrame.data["RSI"][Len(InputClose)] = Hundred

(***************************************************************************)
(* Properties of fetch_news, of the symbol loop and of the sentiment label *)
(* (under Spec).                                                           *)
(***************************************************************************)
NewsReturned == pc = "returned" /\ ~articles.none

Min(a, b) == IF a < b THEN a ELSE b

\* The provider call raised, the response has no article list, or one of the
\* articles that get scored has no description.
NewsFailed(r) ==
    \/ r.kind = "raise"
    \/ ~r.has_articles
    \/ \E i \in 1..Min(Len(r.articles), NewsLimit) : r.articles[i].description.none

NoArticles(r) == r.kind = "response" /\ r.has_articles /\ Len(r.articles) = 0

WellFormed(r) ==
    /\ r.kind = "response"
    /\ r.has_articles
    /\ \A i \in 1..Len(r.articles) :
          ~r.articles[i].title.none /\ ~r.articles[i].description.none

\* C7: whatever the news provider does, fetch_news returns a list, empty on
\* a failure or on zero articles, and fetch_stock_data still returns the
\* indicator frame and the company info.
C7_NewsNeverPropagates ==
    NewsReturned
        => /\ ~news.none
           /\ (NewsFailed(articles.v) \/ NoArticles(articles.v)) => news.v = <<>>
           /\ ~df.none /\ ~info.none
           /\ IndicatorColumns \subseteq Columns(frames[df.v])

C7_Witness ==
    /\ NewsReturned
    /\ articles.v.kind = "response"
    /\ articles.v.has_articles
    /\ Len(articles.v.articles) >= 3
    /\ articles.v.articles[2].description.none
    /\ news = Some(<<>>)
    /\ ~df.none
    /\ ~info.none

\* C9: from n well-formed articles fetch_news returns min(n, 5) items, item k
\* built from the provider's article k, in the provider's order.
C9_FirstFiveInOrder ==
    (NewsReturned /\ WellFormed(articles.v))
        => /\ ~news.none
           /\ Len(news.v) = Min(Len(articles.v.articles), 5)
           /\ \A k \in 1..Len(news.v) :
                 /\ news.v[k].title = articles.v.articles[k].title
                 /\ news.v[k].description = articles.v.articles[k].description
                 /\ news.v[k].url = articles.v.articles[k].url
                 /\ news.v[k].publishedAt = articles.v.articles[k].publishedAt

C9_Witness ==
    /\ NewsReturned
    /\ WellFormed(articles.v)
    /\ Len(articles.v.articles) > 5
    /\ Len(news.v) = 5
    /\ news.v[5].url = articles.v.articles[5].url

\* C8 as stated: the loop reaches its end with one fetch per listed symbol,
\* every symbol whose fetch succeeded has a record made of what one of its
\* fetches returned, and every symbol whose fetch failed has no record.
LoopEnded == pc \in {"render", "done", "crashed"} /\ Len(symbols) > 0

OneCallPerPosition ==
    /\ Len(calls) = Len(symbols)
    /\ \A i \in 1..Len(calls) : calls[i].symbol = symbols[i]

C8_FailedSymbolHasNoRecord ==
    LoopEnded
        => /\ OneCallPerPosition
           /\ \A i \in 1..Len(calls) :
                 IF calls[i].fetched
                 THEN /\ symbols[i] \in DOMAIN stock_data
                      /\ \E j \in 1..Len(calls) :
                            /\ calls[j].symbol = symbols[i]
                            /\ calls[j].record = Some(stock_data[symbols[i]])
                 ELSE symbols[i] \notin DOMAIN stock_data

\* C8 amended: the pass leaves the loop only after every listed occurrence
\* has been fetched, each exactly once, whichever fetches failed; a symbol
\* has a record exactly when one of its fetches succeeded, and the record
\* holds what its last successful fetch returned.
Successes(sym) == {i \in 1..Len(calls) : calls[i].symbol = sym /\ calls[i].fetched}

LastSuccess(sym) == CHOOSE i \in Successes(sym) : \A j \in Successes(sym) : j <= i

InLoop == pc \in {"history", "round", "calc", "info", "news", "returned"}

C8_FetchesAreIndependent ==
    /\ InLoop => (Len(calls) = pos - 1 /\ pos <= Len(symbols))
    /\ LoopEnded
        => /\ OneCallPerPosition
           /\ DOMAIN stock_data = {sym \in SymbolPool : Successes(sym) # {}}
           /\ \A sym \in DOMAIN stock_data :
                 calls[LastSuccess(sym)].record = Some(stock_data[sym])

C8_Witness ==
    /\ LoopEnded
    /\ Len(symbols) = 2
    /\ symbols[1] # symbols[2]
    /\ ~calls[1].fetched
    /\ calls[2].fetched
    /\ DOMAIN stock_data = {symbols[2]}
    /\ stock_data[symbols[2]].df.data["Close"][1] = Num(90000, 1000)

\* C10: the label is decided by the sign of the score alone: Positive
\* exactly for a score > 0, Negative exactly for a score < 0, Neutral
\* exactly for a score of 0.
LabelOf(sym, url) ==
    LET row == CHOOSE r \in {rendered[sym][i] : i \in 1..Len(rendered[sym])} : r.url = url
    IN  row.sentiment

C10_LabelBySign ==
    (pc = "done" /\ rendered # NoRender)
        => \A sym \in DOMAIN stock_data :
              /\ Len(rendered[sym]) = Len(stock_data[sym].news)
              /\ \A i \in 1..Len(stock_data[sym].news) :
                    LET item  == stock_data[sym].news[i]
                        label == LabelOf(sym, item.url)
                    IN  /\ label \in {"Positive", "Negative", "Neutral"}
                        /\ label = "Positive" <=> item.sentiment > 0
                        /\ label = "Negative" <=> item.sentiment < 0
                        /\ label = "Neutral" <=> item.sentiment = 0

C10_Witness ==
    /\ pc = "done"
    /\ rendered # NoRender
    /\ \E sym \in DOMAIN rendered :
          /\ \E i \in 1..Len(rendered[sym]) : rendered[sym][i].sentiment = "Positive"
          /\ \E i \in 1..Len(rendered[sym]) : rendered[sym][i].sentiment = "Negative"
          /\ \E i \in 1..Len(rendered[sym]) : rendered[sym][i].sentiment = "Neutral"

====
